---- MODULE Spec2Model ----
(***************************************************************************)
(* State-machine model of src/main.go (dns-performance-tester): main's     *)
(* round loop, performTestRound's worker pool over the buffered channel    *)
(* workQueue, StartAndRecordLatencies' sampling loop, calculateAverageDelay *)
(* and the per-sample CSV writes.                                           *)
(*                                                                         *)
(* One action is one atomic step of one goroutine.  Steps that touch only  *)
(* goroutine-local data are merged into the neighbouring step that touches *)
(* shared data (channel, WaitGroup, logger, CSV writer).                    *)
(***************************************************************************)
EXTENDS Integers, Sequences, FiniteSets, Bags, TLC

\* ------------------------------------------------------------------ bounds
\* The worker-pool configurations: prefixes of DomainNames and ServerNames,
\* with Work(c) (items x samples x workers x rounds) at most MaxWork.
MaxDomains == 3
MaxServers == 2
MaxWorkers == 2
MaxCount == 2
MaxWork == 6
MaxRounds == 2
MaxPoolLatency == 1
\* The sampling configurations: one item, one worker, up to MaxSamples samples.
MaxSamples == 5
MaxLatency == 2
\* The matrix configurations: every domain and server sequence up to MaxSeqLen.
MaxSeqLen == 2

DomainNames == <<"a.com", "b.com", "c.com", "d.com">>
ServerNames == <<"8.8.8.8", "1.1.1.1", "9.9.9.9", "4.4.4.4">>

VARIABLES
    cfg,        \* Config: Domains, DNSServers, TestCount, Concurrency, LogToFile, SaveCsv, TestRounds
    resolver,   \* the latencies (time.Duration) PerformDNSLookup answers with in this run
    round,      \* main: the loop variable `round`
    mpc,        \* main goroutine's position
    gi,         \* performTestRound: the spawn loop's i
    d, s,       \* performTestRound: positions of the two range loops (1-based)
    workQueue,  \* the channel's buffer
    closed,     \* whether close(workQueue) has run
    wg,         \* the sync.WaitGroup counter
    wk,         \* the worker goroutines: position and locals
    log,        \* lines printed through this round's dt.Logger (a bag)
    csvRows,    \* records written to this round's dt.CSVWriter (a bag)
    csvErr,     \* whether a write to this round's dt.CSVWriter has returned an error
    flushed,    \* whether main has flushed this round's dt.CSVWriter
    hist        \* history of the round: items sent, items received, closes, rounds logged

vars == <<cfg, resolver, round, mpc, gi, d, s, workQueue, closed, wg, wk, log, csvRows, csvErr, flushed, hist>>

\* ------------------------------------------------------------ pure helpers
RECURSIVE SumSeq(_)
SumSeq(q) == IF q = <<>> THEN 0 ELSE Head(q) + SumSeq(Tail(q))

\* Go's integer division truncates toward zero; operands here are >= 0.
calculateAverageDelayByCount(delays) == SumSeq(delays) \div cfg.TestCount
calculateAverageDelay(delays) == SumSeq(delays) \div Len(delays)

\* The divisor of line 201 is zero: the runtime panics (integer divide by zero).
AveragePanics(delays) == Len(delays) = 0

\* DnsWorkItem{Domain: domain, DNSServer: dnsServer} for loop positions (di, si).
DnsWorkItemFirstServer(di, si) == [Domain |-> cfg.Domains[di], DNSServer |-> cfg.DNSServers[1]]
DnsWorkItem(di, si) == [Domain |-> cfg.Domains[di], DNSServer |-> cfg.DNSServers[si]]

\* make(chan DnsWorkItem, len(Domains)*len(DNSServers))
QueueCapDomains == Len(cfg.Domains)
QueueCap == Len(cfg.Domains) * Len(cfg.DNSServers)

\* What a receive leaves in the channel buffer.
AfterReceiveKeep(q) == q
AfterReceive(q) == Tail(q)

\* The delta of wg.Add, line 208.
WgDeltaShort == cfg.Concurrency - 1
WgDelta == cfg.Concurrency

\* `for i := 0; i < dt.Config.Concurrency; i++`, line 209, with i = n.
SpawnLoopOneMore(n) == n <= cfg.Concurrency
SpawnLoopContinues(n) == n < cfg.Concurrency

\* `for round := 1; round <= cfg.TestRounds; round++`, line 262.
RoundLoopStopsEarly == round < cfg.TestRounds
RoundLoopContinues == round <= cfg.TestRounds

\* Whether time.Sleep(interval), line 154, follows a sample: the `continue`
\* of line 150 skips it after a failed lookup.
SleepsAlways(ok) == TRUE
SleepsAfter(ok) == ok

\* The sample index after a failed lookup: `continue` runs the loop's i++.
AfterFailureRetry(n) == n
AfterFailure(n) == n + 1

\* wg.Wait() returns when the counter is zero.
WaitNeverBlocks == TRUE
WaitReturns == wg = 0

\* The outer range loop over Domains has finished: line 244 is reached.
PopulationDoneEarly == d > 1
PopulationDone == d > Len(cfg.Domains)

\* `for i := 1; i <= count; i++`: where the sampling loop goes once i is ni.
LoopPc(ni) == IF ni <= cfg.TestCount THEN "lookup" ELSE "avg"

\* `for _, delay := range delays` under `if dt.Config.SaveCsv`.
CsvPcAlways(nk, delays) == IF nk <= Len(delays) THEN "csv" ELSE "recv"
CsvPc(nk, delays) == IF cfg.SaveCsv /\ nk <= Len(delays) THEN "csv" ELSE "recv"

\* A failed sample in a worker's record of its item's samples.
Failed == -1

NoItem == [Domain |-> "", DNSServer |-> "", id |-> 0]
Idle == [pc |-> "none", work |-> NoItem, i |-> 0, delays |-> <<>>,
         avgDelay |-> 0, k |-> 0, raced |-> FALSE, outcomes |-> <<>>]
Workers == 1..MaxWorkers

Line(kind, work, n, val) ==
    [kind |-> kind, Domain |-> work.Domain, DNSServer |-> work.DNSServer, n |-> n, val |-> val]

NoHist == [sent |-> <<>>, seen |-> EmptyBag, closes |-> 0, completed |-> 0]

\* -------------------------------------------------------------------- init
InitWith(configs, latencies) ==
    /\ cfg \in configs
    /\ resolver = latencies
    /\ round = 1
    /\ mpc = "loop"
    /\ gi = 0
    /\ d = 1
    /\ s = 1
    /\ workQueue = <<>>
    /\ closed = FALSE
    /\ wg = 0
    /\ wk = [w \in Workers |-> Idle]
    /\ log = EmptyBag
    /\ csvRows = EmptyBag
    /\ csvErr = FALSE
    /\ flushed = FALSE
    /\ hist = NoHist

AtLeast1(n) == IF n < 1 THEN 1 ELSE n
\* The size of a configuration: items x samples x workers x rounds.
Work(c) ==
    Len(c.Domains) * Len(c.DNSServers) * AtLeast1(c.TestCount)
        * AtLeast1(c.Concurrency) * AtLeast1(c.TestRounds)

Prefix(q, n) == SubSeq(q, 1, n)

\* Concurrent configurations: distinct domains and servers, a bounded matrix.
PoolConfigs ==
    { c \in [Domains : {Prefix(DomainNames, n) : n \in 0..MaxDomains},
             DNSServers : {Prefix(ServerNames, n) : n \in 0..MaxServers},
             TestCount : 0..MaxCount,
             Concurrency : -1..MaxWorkers,
             LogToFile : {FALSE},
             SaveCsv : BOOLEAN,
             TestRounds : -1..MaxRounds] :
        Work(c) <= MaxWork }

\* One item, one worker, one round: the sampling loop at length.
SampleConfigs ==
    [Domains : {Prefix(DomainNames, 1)},
     DNSServers : {Prefix(ServerNames, 1)},
     TestCount : 0..MaxSamples,
     Concurrency : {1},
     LogToFile : {FALSE},
     SaveCsv : BOOLEAN,
     TestRounds : {1}]

SeqsUpTo(S, n) == UNION {[1..m -> S] : m \in 0..n}

\* Every domain and server sequence, duplicates included, drained by one worker.
MatrixConfigs ==
    [Domains : SeqsUpTo({DomainNames[1], DomainNames[2]}, MaxSeqLen),
     DNSServers : SeqsUpTo({ServerNames[1], ServerNames[2]}, MaxSeqLen),
     TestCount : {1},
     Concurrency : {1},
     LogToFile : {FALSE},
     SaveCsv : {FALSE},
     TestRounds : {1}]

\* One item, one worker, every combination of the persistence flags.
FlagConfigs ==
    [Domains : {Prefix(DomainNames, 1)},
     DNSServers : {Prefix(ServerNames, 1)},
     TestCount : {MaxCount},
     Concurrency : {1},
     LogToFile : BOOLEAN,
     SaveCsv : BOOLEAN,
     TestRounds : {1}]

Init ==
    \/ InitWith(PoolConfigs, 1..MaxPoolLatency)
    \/ InitWith(SampleConfigs, 1..MaxLatency)
    \/ InitWith(MatrixConfigs, 1..MaxPoolLatency)
    \/ InitWith(FlagConfigs, 1..MaxPoolLatency)

\* ------------------------------------------------------------------- main
\* main, lines 262-268: the loop header and NewDnsTestContext (a fresh logger
\* and, with SaveCsv, a fresh CSV writer); then performTestRound's line 206.
NewRound ==
    /\ mpc = "loop"
    /\ IF RoundLoopContinues
       THEN /\ mpc' = "add"
            /\ workQueue' = <<>>
            /\ closed' = FALSE
            /\ log' = EmptyBag
            /\ csvRows' = EmptyBag
            /\ csvErr' = FALSE
            /\ flushed' = FALSE
            /\ hist' = [NoHist EXCEPT !.completed = hist.completed]
            /\ wk' = [w \in Workers |-> Idle]
       ELSE /\ mpc' = "exit"
            /\ UNCHANGED <<workQueue, closed, log, csvRows, csvErr, flushed, hist, wk>>
    /\ UNCHANGED <<cfg, resolver, round, gi, d, s, wg>>

\* performTestRound, lines 207-208: wg.Add(Concurrency); a negative counter panics.
WgAdd ==
    /\ mpc = "add"
    /\ IF cfg.Concurrency < 0
       THEN mpc' = "panic" /\ UNCHANGED wg
       ELSE /\ wg' = wg + WgDelta
            /\ mpc' = IF SpawnLoopContinues(0) THEN "go" ELSE "populate"
    /\ gi' = 0
    /\ d' = 1
    /\ s' = 1
    /\ UNCHANGED <<cfg, resolver, round, workQueue, closed, wk, log, csvRows, csvErr, flushed, hist>>

\* performTestRound, lines 209-237: one `go func()` of the spawn loop.
GoWorker ==
    /\ mpc = "go"
    /\ SpawnLoopContinues(gi)
    /\ wk' = [wk EXCEPT ![gi + 1] = [Idle EXCEPT !.pc = "recv"]]
    /\ gi' = gi + 1
    /\ mpc' = IF SpawnLoopContinues(gi + 1) THEN "go" ELSE "populate"
    /\ UNCHANGED <<cfg, resolver, round, d, s, workQueue, closed, wg, log, csvRows, csvErr, flushed, hist>>

\* performTestRound, lines 240-242: one send of the inner loop.
Enqueue ==
    /\ mpc = "populate"
    /\ d <= Len(cfg.Domains)
    /\ s <= Len(cfg.DNSServers)
    /\ Len(workQueue) < QueueCap
    /\ LET item == DnsWorkItem(d, s)
           tagged == [Domain |-> item.Domain, DNSServer |-> item.DNSServer,
                      id |-> Len(hist.sent) + 1]
       IN /\ workQueue' = Append(workQueue, tagged)
          /\ hist' = [hist EXCEPT !.sent = Append(@, item)]
    /\ s' = s + 1
    /\ UNCHANGED <<cfg, resolver, round, mpc, gi, d, closed, wg, wk, log, csvRows, csvErr, flushed>>

\* performTestRound, lines 239-240: the inner loop is exhausted, next domain.
NextDomain ==
    /\ mpc = "populate"
    /\ d <= Len(cfg.Domains)
    /\ s > Len(cfg.DNSServers)
    /\ d' = d + 1
    /\ s' = 1
    /\ UNCHANGED <<cfg, resolver, round, mpc, gi, workQueue, closed, wg, wk, log, csvRows, csvErr, flushed, hist>>

\* performTestRound, line 244: close(workQueue).
CloseQueue ==
    /\ mpc = "populate"
    /\ PopulationDone
    /\ closed' = TRUE
    /\ hist' = [hist EXCEPT !.closes = @ + 1]
    /\ mpc' = "wait"
    /\ UNCHANGED <<cfg, resolver, round, gi, d, s, workQueue, wg, wk, log, csvRows, csvErr, flushed>>

\* performTestRound, line 246: wg.Wait().
WgWait ==
    /\ mpc = "wait"
    /\ WaitReturns
    /\ mpc' = "loground"
    /\ UNCHANGED <<cfg, resolver, round, gi, d, s, workQueue, closed, wg, wk, log, csvRows, csvErr, flushed, hist>>

\* performTestRound, lines 248-252: the completion line, under TestRoundMutex.
LogRoundDone ==
    /\ mpc = "loground"
    /\ log' = log (+) SetToBag({Line("round", NoItem, round, 0)})
    /\ hist' = [hist EXCEPT !.completed = round]
    /\ mpc' = "flush"
    /\ UNCHANGED <<cfg, resolver, round, gi, d, s, workQueue, closed, wg, wk, csvRows, csvErr, flushed>>

\* main, lines 273-276: Flush when SaveCsv, then round++.
FlushCsv ==
    /\ mpc = "flush"
    /\ flushed' = cfg.SaveCsv
    /\ round' = round + 1
    /\ mpc' = "loop"
    /\ UNCHANGED <<cfg, resolver, gi, d, s, workQueue, closed, wg, wk, log, csvRows, csvErr, hist>>

\* ---------------------------------------------------------------- workers
Running == mpc \notin {"panic", "exit"}

\* line 213, `for work := range workQueue`: receive an item; falls into
\* StartAndRecordLatencies (line 145, and the loop header of line 146).
Receive(w) ==
    /\ Running
    /\ wk[w].pc = "recv"
    /\ workQueue # <<>>
    /\ LET work == Head(workQueue)
       IN /\ wk' = [wk EXCEPT ![w] = [pc |-> LoopPc(1), work |-> work, i |-> 1,
                                      delays |-> <<>>, avgDelay |-> 0, k |-> 0,
                                      raced |-> FALSE, outcomes |-> <<>>]]
          /\ hist' = [hist EXCEPT !.seen = @ (+) SetToBag({work})]
    /\ workQueue' = AfterReceive(workQueue)
    /\ UNCHANGED <<cfg, resolver, round, mpc, gi, d, s, closed, wg, log, csvRows, csvErr, flushed>>

\* line 213 on a closed, drained channel: the range loop ends, the goroutine
\* returns and the deferred wg.Done() of line 211 runs.
WorkerExit(w) ==
    /\ Running
    /\ wk[w].pc = "recv"
    /\ workQueue = <<>>
    /\ closed
    /\ wk' = [wk EXCEPT ![w].pc = "done"]
    /\ wg' = wg - 1
    /\ UNCHANGED <<cfg, resolver, round, mpc, gi, d, s, workQueue, closed, log, csvRows, csvErr, flushed, hist>>

\* lines 147-151: PerformDNSLookup fails; the error line is logged; continue.
LookupFail(w) ==
    /\ Running
    /\ wk[w].pc = "lookup"
    /\ log' = log (+) SetToBag({Line("err", wk[w].work, wk[w].i, 0)})
    /\ wk' = [wk EXCEPT ![w].i = IF SleepsAfter(FALSE) THEN @ ELSE AfterFailure(@),
                        ![w].pc = IF SleepsAfter(FALSE) THEN "sleep"
                                  ELSE LoopPc(AfterFailure(wk[w].i)),
                        ![w].outcomes = Append(@, Failed)]
    /\ UNCHANGED <<cfg, resolver, round, mpc, gi, d, s, workQueue, closed, wg, csvRows, csvErr, flushed, hist>>

\* lines 147, 152-153: PerformDNSLookup succeeds; append and log the latency.
LookupOk(w) ==
    /\ Running
    /\ wk[w].pc = "lookup"
    /\ \E latency \in resolver :
        /\ log' = log (+) SetToBag({Line("ok", wk[w].work, wk[w].i, latency)})
        /\ wk' = [wk EXCEPT ![w].delays = Append(@, latency),
                            ![w].i = IF SleepsAfter(TRUE) THEN @ ELSE @ + 1,
                            ![w].pc = IF SleepsAfter(TRUE) THEN "sleep" ELSE LoopPc(wk[w].i + 1),
                            ![w].outcomes = Append(@, latency)]
    /\ UNCHANGED <<cfg, resolver, round, mpc, gi, d, s, workQueue, closed, wg, csvRows, csvErr, flushed, hist>>

\* lines 154, 146: time.Sleep(interval) returns; i++.
Sleep(w) ==
    /\ Running
    /\ wk[w].pc = "sleep"
    /\ wk' = [wk EXCEPT ![w].i = @ + 1, ![w].pc = LoopPc(wk[w].i + 1)]
    /\ UNCHANGED <<cfg, resolver, round, mpc, gi, d, s, workQueue, closed, wg, log, csvRows, csvErr, flushed, hist>>

\* lines 158-159, 196-202, 215-222: calculateAverageDelay, the return, and the
\* average line.  A zero divisor panics the goroutine, which ends the process.
Average(w) ==
    /\ Running
    /\ wk[w].pc = "avg"
    /\ IF AveragePanics(wk[w].delays)
       THEN /\ mpc' = "panic"
            /\ wk' = [wk EXCEPT ![w].pc = "divzero"]
            /\ UNCHANGED log
       ELSE LET avg == calculateAverageDelay(wk[w].delays)
            IN /\ log' = log (+) SetToBag({Line("avg", wk[w].work, 0, avg)})
               /\ wk' = [wk EXCEPT ![w].avgDelay = avg,
                                   ![w].k = 1,
                                   ![w].pc = CsvPc(1, wk[w].delays)]
               /\ UNCHANGED mpc
    /\ UNCHANGED <<cfg, resolver, round, gi, d, s, workQueue, closed, wg, csvRows, csvErr, flushed, hist>>

\* lines 223-230, 103-111: the worker enters dt.CSVWriter.Write for delays[k].
\* No lock is taken around the call, and csv.Writer is not safe for concurrent
\* use: a call that overlaps another worker's call is a data race (raced).
CsvWriteBegin(w) ==
    /\ Running
    /\ wk[w].pc = "csv"
    /\ LET overlap == \E u \in Workers : u # w /\ wk[u].pc = "writing"
       IN wk' = [u \in Workers |->
                    IF u = w THEN [wk[u] EXCEPT !.pc = "writing", !.raced = overlap]
                    ELSE IF wk[u].pc = "writing" THEN [wk[u] EXCEPT !.raced = TRUE]
                    ELSE wk[u]]
    /\ UNCHANGED <<cfg, resolver, round, mpc, gi, d, s, workQueue, closed, wg, log, csvRows, csvErr, flushed, hist>>

\* What a call of dt.CSVWriter.Write can do to its record: written whole, or
\* an error returned (the record is not written).  csv.Writer writes through a
\* bufio.Writer, which keeps its first error: once a write has failed, every
\* later write to this writer fails.  A call that raced with another can also
\* tear or lose the record, or panic.
WriteOutcomes(raced) ==
    IF csvErr THEN {"error"}
    ELSE {"whole", "error"} \cup (IF raced THEN {"torn", "lost", "panic"} ELSE {})

\* Where the worker goes when the write of delays[nk - 1] has returned: an
\* error is only logged (lines 230-232), the range loop of line 223 goes on.
AfterWriteReturnOnError(outcome, nk, delays) ==
    IF outcome = "error" THEN "done" ELSE CsvPc(nk, delays)
AfterWrite(outcome, nk, delays) == CsvPc(nk, delays)

\* lines 111-114, 230-232, 223: the write returns; a returned error is logged
\* (line 231); next delay.
CsvWriteEnd(w) ==
    /\ Running
    /\ wk[w].pc = "writing"
    /\ \E outcome \in WriteOutcomes(wk[w].raced) :
        /\ csvRows' = IF outcome \in {"whole", "torn"}
                      THEN csvRows (+) SetToBag({[Domain |-> wk[w].work.Domain,
                                                  Server |-> wk[w].work.DNSServer,
                                                  Latency |-> wk[w].delays[wk[w].k],
                                                  whole |-> outcome = "whole"]})
                      ELSE csvRows
        /\ csvErr' = (csvErr \/ outcome = "error")
        /\ log' = IF outcome = "error"
                  THEN log (+) SetToBag({Line("csvfail", NoItem, 0, 0)})
                  ELSE log
        /\ IF outcome = "panic"
           THEN /\ mpc' = "panic"
                /\ wk' = [wk EXCEPT ![w].pc = "racepanic"]
           ELSE /\ wk' = [wk EXCEPT ![w].k = @ + 1,
                                    ![w].raced = FALSE,
                                    ![w].pc = AfterWrite(outcome, wk[w].k + 1, wk[w].delays)]
                /\ UNCHANGED mpc
    /\ UNCHANGED <<cfg, resolver, round, gi, d, s, workQueue, closed, wg, flushed, hist>>

Worker(w) ==
    \/ Receive(w)
    \/ WorkerExit(w)
    \/ LookupFail(w)
    \/ LookupOk(w)
    \/ Sleep(w)
    \/ Average(w)
    \/ CsvWriteBegin(w)
    \/ CsvWriteEnd(w)

Main ==
    \/ NewRound
    \/ WgAdd
    \/ GoWorker
    \/ Enqueue
    \/ NextDomain
    \/ CloseQueue
    \/ WgWait
    \/ LogRoundDone
    \/ FlushCsv

Next == Main \/ \E w \in Workers : Worker(w)

Spec == Init /\ [][Next]_vars

\* ----------------------------------------------------------- vocabulary
\* The goroutine of worker w has returned (or was never started this round).
Returned(w) == wk[w].pc \in {"none", "done"}
WorkersReturned == \A w \in Workers : Returned(w)

\* The n-th item sent in this round, as it travels through the channel.
Sent(n) == [Domain |-> hist.sent[n].Domain, DNSServer |-> hist.sent[n].DNSServer, id |-> n]
SentBag == SetToBag({Sent(n) : n \in 1..Len(hist.sent)})

\* The Cartesian product in domain-major order, by index arithmetic.
Matrix(D, S) ==
    [n \in 1..(Len(D) * Len(S)) |->
        [Domain |-> D[((n - 1) \div Len(S)) + 1], DNSServer |-> S[((n - 1) % Len(S)) + 1]]]

\* performTestRound has passed wg.Wait() for the current round.
RoundComplete == mpc \in {"loground", "flush"}

\* StartAndRecordLatencies has returned to worker w for its current item.
Sampled(w) ==
    \/ wk[w].pc \in {"csv", "writing"}
    \/ wk[w].pc \in {"recv", "done"} /\ wk[w].work.id # 0

Successes(outcomes) == SelectSeq(outcomes, LAMBDA x : x # Failed)
AllFailed(outcomes) == \A j \in 1..Len(outcomes) : outcomes[j] = Failed

\* ------------------------------------------------------------------ claims

\* C1: with Concurrency >= 1, no item is received twice, only sent items are
\* received, and once the round has passed its barrier the bag of items the
\* workers received is exactly the bag of the |Domains| x |DNSServers| items sent.
C1_EachItemOnce ==
    cfg.Concurrency >= 1 =>
        /\ \A e \in BagToSet(hist.seen) :
                CopiesIn(e, hist.seen) = 1 /\ CopiesIn(e, SentBag) = 1
        /\ RoundComplete =>
                /\ WorkersReturned
                /\ hist.seen = SentBag
                /\ Len(hist.sent) = QueueCap
                /\ workQueue = <<>>

\* C1 witness: a round of 3 items drained by 2 workers has completed.
C1_Witness ==
    /\ RoundComplete
    /\ cfg.Concurrency = 2
    /\ QueueCap = 3
    /\ BagCardinality(hist.seen) = 3
    /\ \A w \in 1..2 : wk[w].work.id # 0

\* C2: the completion line of round N is logged only when every worker of round
\* N has returned; every send and receive of a round happens after the
\* completion line of the round before; and main moves to the next round only
\* with every worker returned and the completion line logged.
C2_RoundBarrier ==
    [][ /\ hist'.completed # hist.completed =>
                WorkersReturned /\ hist'.completed = round /\ hist.completed = round - 1
        /\ (hist'.sent # hist.sent /\ hist'.sent # <<>>) => hist.completed = round - 1
        /\ (hist'.seen # hist.seen /\ hist'.seen # EmptyBag) => hist.completed = round - 1
        /\ (\E w \in Workers : wk'[w] # wk[w] /\ wk'[w].pc # "none") =>
                hist.completed = round - 1
        /\ round' # round => WorkersReturned /\ hist.completed = round ]_vars

\* C2 witness: round 2 is populating after round 1's workers received items
\* and its completion line was logged.
C2_Witness ==
    /\ round = 2
    /\ hist.completed = 1
    /\ hist.sent # <<>>
    /\ \E w \in Workers : wk[w].pc = "lookup"

\* C3: with TestCount >= 1 and every sample of an item failed, sampling ends
\* without a division by zero.
C3_AllFailedNoPanic ==
    \A w \in Workers :
        (cfg.TestCount >= 1 /\ Len(wk[w].outcomes) = cfg.TestCount /\ AllFailed(wk[w].outcomes))
            => wk[w].pc # "divzero"

\* C4: with TestCount = 0, sampling returns without a division by zero (and
\* without a lookup).
C4_ZeroCountNoPanic ==
    \A w \in Workers :
        cfg.TestCount = 0 => wk[w].pc # "divzero" /\ wk[w].outcomes = <<>>

\* C5: no pattern of failed lookups aborts anything: while some worker's item
\* has a failed sample, the process has not panicked.
C5_FailuresContained ==
    (\E w \in Workers : \E j \in 1..Len(wk[w].outcomes) : wk[w].outcomes[j] = Failed)
        => mpc # "panic"

\* C6: when sampling returns with a non-empty set of successful samples, the
\* delays are exactly the successful latencies in sample order, every sample
\* index was tried once, and the average is the integer quotient of their sum
\* by their number.
C6_AverageOverSuccesses ==
    \A w \in Workers :
        /\ wk[w].delays = Successes(wk[w].outcomes)
        /\ Sampled(w) =>
            LET n == Len(Successes(wk[w].outcomes))
                total == SumSeq(Successes(wk[w].outcomes))
            IN /\ Len(wk[w].outcomes) = cfg.TestCount
               /\ n >= 1
               /\ wk[w].avgDelay * n <= total
               /\ total < (wk[w].avgDelay + 1) * n

\* C6 witness: 5 samples, samples 2 and 4 failed, latencies 1, 2, 2: average 1.
C6_Witness ==
    \E w \in Workers :
        /\ Sampled(w)
        /\ wk[w].outcomes = <<1, Failed, 2, Failed, 2>>
        /\ wk[w].delays = <<1, 2, 2>>
        /\ wk[w].avgDelay = 1

\* C7: the items sent in a round are always a prefix of the domain-major
\* Cartesian product of Domains and DNSServers, and the whole of it once the
\* queue is closed.
C7_MatrixDomainMajor ==
    LET M == Matrix(cfg.Domains, cfg.DNSServers)
    IN /\ Len(hist.sent) <= Len(M)
       /\ hist.sent = SubSeq(M, 1, Len(hist.sent))
       /\ closed => hist.sent = M

\* C7 witness: a closed queue for a configuration that names a domain twice
\* and has two servers: four items, two of them equal pairs.
C7_Witness ==
    /\ closed
    /\ Len(cfg.Domains) = 2
    /\ cfg.Domains[1] = cfg.Domains[2]
    /\ Len(cfg.DNSServers) = 2
    /\ cfg.DNSServers[1] # cfg.DNSServers[2]
    /\ Len(hist.sent) = 4
    /\ hist.sent[1] = hist.sent[3]

C9_CsvWritesSerialized ==
    Cardinality({w \in Workers : wk[w].pc = "writing"}) <= 1

\* C10: once main has flushed the round's CSV writer, every worker of the
\* round has returned, so no record write of the round is pending or running.
C10_NoWriteAfterFlush ==
    /\ flushed => WorkersReturned
    /\ mpc = "flush" => WorkersReturned
    /\ (\E w \in Workers : wk[w].pc \in {"csv", "writing"}) => ~flushed /\ mpc # "flush"

\* C10 witness: a round that wrote records from two workers has been flushed.
C10_Witness ==
    /\ flushed
    /\ cfg.Concurrency = 2
    /\ BagCardinality(csvRows) >= 2
    /\ \A w \in 1..2 : wk[w].k >= 2

\* Successful-sample lines logged for (dom, srv) with latency lat, and whole
\* CSV records written for the same.
OkLines(dom, srv, lat) ==
    LET ls == {l \in BagToSet(log) :
                 l.kind = "ok" /\ l.Domain = dom /\ l.DNSServer = srv /\ l.val = lat}
    IN BagCardinality([l \in ls |-> log[l]])
WholeRows(dom, srv, lat) ==
    CopiesIn([Domain |-> dom, Server |-> srv, Latency |-> lat, whole |-> TRUE], csvRows)

\* C11: without SaveCsv no record is written; with SaveCsv, once the round has
\* passed its barrier with no write error returned, the CSV holds exactly one
\* whole record per successful sample, with that sample's latency, and
\* nothing else.
C11_OneRowPerSuccess ==
    /\ ~cfg.SaveCsv => csvRows = EmptyBag
    /\ (cfg.SaveCsv /\ cfg.Concurrency >= 1 /\ RoundComplete /\ ~csvErr) =>
        /\ \A l \in BagToSet(log) :
                l.kind = "ok" =>
                    WholeRows(l.Domain, l.DNSServer, l.val) = OkLines(l.Domain, l.DNSServer, l.val)
        /\ \A r \in BagToSet(csvRows) :
                r.whole /\ OkLines(r.Domain, r.Server, r.Latency) >= 1

\* The rounds main has to run: TestRounds, or none when it is not positive.
RoundsToRun == IF cfg.TestRounds > 0 THEN cfg.TestRounds ELSE 0

\* C12: with Concurrency >= 1, whenever the process can take no further step
\* it has left main's loop with the completion line of every configured round
\* logged: no run stops with a round unfinished.
C12_EveryRoundCompletes ==
    (cfg.Concurrency >= 1 /\ ~ENABLED Next) =>
        mpc = "exit" /\ hist.completed = RoundsToRun

\* The worker goroutines started in this round, and those holding an item.
Started == {w \in Workers : wk[w].pc # "none"}
Busy == {w \in Workers : wk[w].pc \in {"lookup", "sleep", "avg", "csv", "writing"}}

\* C13: a round never has more than Concurrency worker goroutines; once the
\* spawn loop is over it has exactly Concurrency of them until the round ends;
\* so at most Concurrency items are being processed at any time.
C13_BoundedPool ==
    /\ cfg.Concurrency >= 0 => Cardinality(Started) <= cfg.Concurrency
    /\ cfg.Concurrency < 0 => Started = {}
    /\ mpc = "go" => Cardinality(Started) = gi
    /\ mpc \in {"populate", "wait", "loground", "flush"} =>
            Cardinality(Started) = cfg.Concurrency
    /\ Cardinality(Busy) <= Cardinality(Started)

\* C13 witness: one worker is sampling an item while two more items wait in
\* the closed queue.
C13_Witness ==
    /\ cfg.Concurrency = 1
    /\ closed
    /\ Len(workQueue) = 2
    /\ Cardinality(Busy) = 1
    /\ Cardinality(Started) = 1

\* The line of line 231; it carries the error only, no domain or server.
CsvFailLine == Line("csvfail", NoItem, 0, 0)
CsvFailLines(l) == CopiesIn(CsvFailLine, l)

\* C14: a record write that returns an error is logged with exactly one line
\* and costs only that record: the records already written stay, the worker
\* stays in its loop on the same item, past that record, no other worker, the
\* queue, the barrier or main is touched; and every write that returns an
\* error is logged.
C14_SinkFailureContained ==
    [][ /\ (CsvFailLines(log') # CsvFailLines(log) /\ log' # EmptyBag) =>
            \E w \in Workers :
                /\ wk[w].pc = "writing"
                /\ log' = log (+) SetToBag({CsvFailLine})
                /\ csvRows' = csvRows
                /\ wk'[w].pc \in {"csv", "recv"}
                /\ wk'[w].work = wk[w].work
                /\ wk'[w].k = wk[w].k + 1
                /\ \A u \in Workers \ {w} : wk'[u] = wk[u]
                /\ <<mpc, wg, workQueue, closed, round>>' = <<mpc, wg, workQueue, closed, round>>
        /\ (csvErr' /\ \E w \in Workers : wk[w].pc = "writing" /\ wk'[w].pc # "writing") =>
            CsvFailLines(log') = CsvFailLines(log) + 1 ]_vars

\* C14 witness: the only worker had a record write fail on the first item and
\* is now sampling the second.
C14_Witness ==
    /\ cfg.Concurrency = 1
    /\ CsvFailLines(log) >= 1
    /\ csvErr
    /\ wk[1].pc = "lookup"
    /\ wk[1].work.id = 2

\* The line logged for the j-th sample of worker w's item.
SampleLine(w, j) ==
    IF wk[w].outcomes[j] = Failed
    THEN Line("err", wk[w].work, j, 0)
    ELSE Line("ok", wk[w].work, j, wk[w].outcomes[j])

\* C15: the lookups of one item are made one per sample index, in increasing
\* order, never more than TestCount and exactly TestCount once sampling is
\* over, a failed index is not tried again, and when lookup i starts the
\* results of lookups 1..i-1 have been logged under their index.
C15_OneLookupPerIndex ==
    \A w \in Workers :
        /\ Len(wk[w].outcomes) <= cfg.TestCount
        /\ wk[w].pc = "lookup" => wk[w].i = Len(wk[w].outcomes) + 1 /\ wk[w].i <= cfg.TestCount
        /\ wk[w].pc = "sleep" => wk[w].i = Len(wk[w].outcomes)
        /\ (wk[w].pc \in {"avg", "divzero"} \/ Sampled(w)) =>
                Len(wk[w].outcomes) = cfg.TestCount
        /\ \A j \in 1..Len(wk[w].outcomes) : CopiesIn(SampleLine(w, j), log) >= 1

\* C15 witness: the fifth lookup of an item is due after the third failed.
C15_Witness ==
    \E w \in Workers :
        /\ wk[w].pc = "lookup"
        /\ wk[w].i = 5
        /\ wk[w].outcomes[3] = Failed
        /\ wk[w].outcomes[4] # Failed

\* The completion lines in the log, lines 248-250.
RoundLines == {e \in BagToSet(log) : e.kind = "round"}

\* C16: rounds are numbered 1, 2, ... and taken one at a time up to
\* TestRounds; a round starts on an empty queue and nothing sent; once its
\* queue is closed the whole matrix has been sent; its completion line is
\* logged once, under its number, and only at the end of the round; main
\* leaves the loop only after round TestRounds; and when TestRounds <= 0 no
\* round starts and nothing is ever sent.
C16_RoundSequence ==
    /\ [](/\ round \in 1..(RoundsToRun + 1)
          /\ hist.completed = (IF mpc = "flush" THEN round ELSE round - 1)
          /\ mpc \notin {"loop", "exit"} => round <= cfg.TestRounds
          /\ mpc = "exit" => round = RoundsToRun + 1 /\ hist.completed = RoundsToRun
          /\ \A e \in RoundLines : e.n = hist.completed /\ CopiesIn(e, log) = 1
          /\ mpc = "flush" => CopiesIn(Line("round", NoItem, round, 0), log) = 1
          /\ mpc \in {"wait", "loground", "flush"} =>
                hist.sent = Matrix(cfg.Domains, cfg.DNSServers)
          /\ cfg.TestRounds <= 0 =>
                mpc \in {"loop", "exit"} /\ hist.sent = <<>> /\ workQueue = <<>>)
    /\ [][ /\ round' # round => round' = round + 1 /\ mpc = "flush" /\ mpc' = "loop"
           /\ (mpc = "loop" /\ mpc' # "exit") =>
                /\ mpc' = "add"
                /\ workQueue' = <<>> /\ ~closed' /\ hist'.sent = <<>> ]_vars

\* C16 witness: main has left the loop after two rounds, the second of which
\* started while the first round's items were still in its queue.
C16_Witness ==
    /\ mpc = "exit"
    /\ cfg.TestRounds = 2
    /\ cfg.Concurrency = 0
    /\ hist.completed = 2
    /\ Len(hist.sent) >= 2

\* Worker u holds an item and is at a step that waits for nothing.
Runnable(u) == wk[u].pc \in {"lookup", "sleep", "avg", "csv", "writing"}

\* C17: a worker is in time.Sleep only right after a successful sample; a
\* successful lookup is followed by the sleep, with the index unchanged, and
\* the sleep by the next index (the next lookup, or the average after the
\* last sample) and never by a second sleep; a failed lookup moves to the
\* next index at once, without a sleep; and while a worker sleeps, every
\* other worker that holds an item can still take its step.
C17_SleepAfterSuccessOnly ==
    /\ [](\A w \in Workers :
            wk[w].pc = "sleep" =>
                /\ wk[w].i = Len(wk[w].outcomes)
                /\ wk[w].outcomes[wk[w].i] # Failed
                /\ \A u \in Workers \ {w} :
                        (Running /\ Runnable(u)) => ENABLED Worker(u))
    /\ [][ \A w \in Workers :
            /\ (wk[w].pc = "lookup" /\ wk'[w] # wk[w]) =>
                  LET n == Len(wk'[w].outcomes)
                  IN /\ n = wk[w].i
                     /\ IF wk'[w].outcomes[n] # Failed
                        THEN wk'[w].pc = "sleep" /\ wk'[w].i = wk[w].i
                        ELSE /\ wk'[w].pc \in {"lookup", "avg"}
                             /\ wk'[w].i = wk[w].i + 1
            /\ (wk[w].pc = "sleep" /\ wk'[w] # wk[w]) =>
                  /\ wk'[w].pc \in {"lookup", "avg"}
                  /\ wk'[w].pc = "avg" <=> wk[w].i = cfg.TestCount
                  /\ wk'[w].i = wk[w].i + 1
                  /\ wk'[w].outcomes = wk[w].outcomes
                  /\ log' = log ]_vars

\* C17 witness: one worker sleeps after its last sample while another, whose
\* only sample failed, is already at the average without having slept.
C17_Witness ==
    \E w, u \in Workers :
        /\ wk[w].pc = "sleep"
        /\ wk[w].i = cfg.TestCount
        /\ wk[u].pc = "avg"
        /\ wk[u].outcomes = <<Failed>>

\* Average lines in log l for the pair (dom, srv).
AvgLines(l, dom, srv) ==
    LET ls == {e \in BagToSet(l) : e.kind = "avg" /\ e.Domain = dom /\ e.DNSServer = srv}
    IN BagCardinality([e \in ls |-> l[e]])

\* Items received so far for the pair (dom, srv), and the workers that hold
\* such an item with its sampling not yet returned.
Received(dom, srv) ==
    {x \in BagToSet(hist.seen) : x.Domain = dom /\ x.DNSServer = srv}
Sampling(dom, srv) ==
    {w \in Workers : /\ wk[w].pc \in {"lookup", "sleep", "avg", "divzero"}
                      /\ wk[w].work.Domain = dom /\ wk[w].work.DNSServer = srv}

\* C18: for every pair, the log holds one average line per received item
\* whose sampling has returned, whatever SaveCsv and LogToFile are; the line
\* is added by the step that ends the item's sampling, after all TestCount
\* samples and with the item's first CSV record still to be written; a CSV
\* record is written only with SaveCsv and only for an item whose average
\* line is already logged.
C18_OneAverageLinePerItem ==
    /\ [](/\ \A x \in BagToSet(hist.seen) :
                AvgLines(log, x.Domain, x.DNSServer) =
                    Cardinality(Received(x.Domain, x.DNSServer))
                        - Cardinality(Sampling(x.Domain, x.DNSServer))
          /\ \A e \in BagToSet(log) :
                e.kind = "avg" => Received(e.Domain, e.DNSServer) # {}
          /\ \A w \in Workers : wk[w].pc \in {"csv", "writing"} => cfg.SaveCsv
          /\ ~cfg.SaveCsv => csvRows = EmptyBag)
    /\ [][ /\ \A w \in Workers :
                (wk[w].pc = "avg" /\ wk'[w].pc \notin {"avg", "divzero"}) =>
                    /\ Len(wk[w].outcomes) = cfg.TestCount
                    /\ log' = log (+) SetToBag({Line("avg", wk[w].work, 0,
                                    calculateAverageDelay(wk[w].delays))})
                    /\ wk'[w].k = 1
                    /\ wk'[w].pc = (IF cfg.SaveCsv THEN "csv" ELSE "recv")
                    /\ csvRows' = csvRows
           /\ (csvRows' # csvRows /\ csvRows' # EmptyBag) =>
                \E w \in Workers :
                    /\ wk[w].pc = "writing"
                    /\ cfg.SaveCsv
                    /\ AvgLines(log, wk[w].work.Domain, wk[w].work.DNSServer) >= 1
                    /\ log' = log ]_vars

\* C18 witness: with LogToFile set and SaveCsv clear, a worker is back at
\* the queue after an item whose average line is in the log.
C18_Witness ==
    /\ cfg.LogToFile
    /\ ~cfg.SaveCsv
    /\ \E w \in Workers :
        /\ wk[w].pc = "recv"
        /\ wk[w].work.id # 0
        /\ Len(wk[w].delays) = 1
        /\ AvgLines(log, wk[w].work.Domain, wk[w].work.DNSServer) = 1

\* The producer is at the send of line 241.
AtSend == mpc = "populate" /\ d <= Len(cfg.Domains) /\ s <= Len(cfg.DNSServers)

\* C19: the queue never holds more than |Domains| x |DNSServers| items and no
\* more than that are sent; whenever the producer is at a send the buffer
\* has room and the send can be taken; and while it populates, its next step
\* (send, next domain, or close) is always possible, whatever the workers do.
C19_ProducerNeverBlocks ==
    /\ Len(workQueue) <= QueueCap
    /\ Len(hist.sent) <= Len(cfg.Domains) * Len(cfg.DNSServers)
    /\ AtSend => Len(workQueue) < QueueCap /\ ENABLED Enqueue
    /\ mpc = "populate" => ENABLED (Enqueue \/ NextDomain \/ CloseQueue)
    /\ closed => Len(hist.sent) = Len(cfg.Domains) * Len(cfg.DNSServers)

\* C19 witness: workers are running but none has received anything, and the
\* producer is at its last send with every earlier item still in the buffer.
C19_Witness ==
    /\ AtSend
    /\ cfg.Concurrency >= 1
    /\ hist.seen = EmptyBag
    /\ Len(workQueue) >= 2
    /\ Len(workQueue) = QueueCap - 1

\* C20: once the completion line of the current round is logged, the queue
\* is empty and every item sent in the round has been received by a worker
\* that has since returned, for every Concurrency, zero included.
C20_CompletionMeansProcessed ==
    hist.completed = round =>
        /\ workQueue = <<>>
        /\ hist.seen = SentBag
        /\ WorkersReturned

====
